---- MODULE Spec2Model ----
(***************************************************************************)
(* Model of lru_cache_exercise/src/lib.rs: LruCache<K, V>, a HashMap from  *)
(* keys to Rc<RefCell<Node>> handles plus a doubly-linked recency list of  *)
(* the nodes (head = most recently used, tail = least recently used).      *)
(*                                                                         *)
(* The heap of Rc<RefCell<Node>> allocations is the function `nodes` from  *)
(* allocated node ids to node records; a Link (Option<Rc<..>>) is a node   *)
(* id or NIL.  An Rc allocation is freed when no reference to it is left.  *)
(***************************************************************************)
EXTENDS Integers, Sequences, FiniteSets, TLC

\* ---- bounds of the model ------------------------------------------------
MaxCap == 3
MaxKey == 4
MaxVal == 2

Keys     == 1..MaxKey
Values   == 1..MaxVal

\* addresses of Rc allocations: two for the nodes of each key
NodeIds  == 1..(2 * MaxKey)
AddrsOf(key) == {key, key + MaxKey}

\* Option::None of a Link, and Option::None of get's result
NIL  == 0
None == 0

VARIABLES
    capacity,   \* LruCache.capacity
    map,        \* LruCache.map : resident key -> Link
    head,       \* LruCache.head
    tail,       \* LruCache.tail
    nodes,      \* the live Rc<RefCell<Node>> allocations: id -> Node
    panicked,   \* TRUE once an unwrap() of None has aborted the caller
    op,         \* the last call: "new", "get" or "put"
    argKey,     \* its key argument
    argVal,     \* its value argument (put)
    ret,        \* the Option<V> the last get returned
    branch,     \* the branch the last call took
    touchOrder, \* history: resident keys by most recent touch, latest first
    lastPut,    \* history: value of the latest put of a key still resident
    pending,    \* history: keys resident at a key's last touch, not yet
                \* evicted or touched again
    script      \* history: how many calls of tests::test_lru_cache the calls
                \* so far are, in order, or Diverged

cacheVars == <<capacity, map, head, tail, nodes, panicked>>
callVars  == <<op, argKey, argVal, ret, branch>>
histVars  == <<touchOrder, lastPut, pending, script>>
vars      == <<capacity, map, head, tail, nodes, panicked,
               op, argKey, argVal, ret, branch, touchOrder, lastPut, pending,
               script>>

\* ---- Node and LruCache --------------------------------------------------
Node(key, data, next, prev) ==
    [key |-> key, data |-> data, next |-> next, prev |-> prev]

LruCache(cap, m, h, t, ns, p) ==
    [capacity |-> cap, map |-> m, head |-> h, tail |-> t, nodes |-> ns,
     panicked |-> p]

EmptyMap == [k \in {} |-> NIL]

new(cap) == LruCache(cap, EmptyMap, NIL, NIL, EmptyMap, FALSE)

\* HashMap::insert and HashMap::remove
map_insert(m, key, link) ==
    [x \in (DOMAIN m) \cup {key} |-> IF x = key THEN link ELSE m[x]]

map_remove(m, key) == [x \in (DOMAIN m) \ {key} |-> m[x]]

\* ---- Rc: an allocation lives as long as some reference to it does --------
Referenced(c, ns, n) ==
    \/ c.head = n
    \/ c.tail = n
    \/ \E k \in DOMAIN c.map : c.map[k] = n
    \/ \E m \in DOMAIN ns : ns[m].next = n \/ ns[m].prev = n

RECURSIVE rc_drop(_, _)
rc_drop(c, ns) ==
    LET dead == {n \in DOMAIN ns : ~Referenced(c, ns, n)}
    IN  IF dead = {} THEN ns
        ELSE rc_drop(c, [n \in (DOMAIN ns) \ dead |-> ns[n]])

\* the locals of a call go out of scope: unreferenced nodes are freed
end_of_call(c) == [c EXCEPT !.nodes = rc_drop(c, c.nodes)]

\* Rc::new: the address of a new allocation is one not in use.  Which one
\* is not observable (nodes are reached through links only), so the allocator
\* is fixed to hand out the first free address of the key's own.
rc_new(c, key) == CHOOSE n \in AddrsOf(key) \ DOMAIN c.nodes :
                      \A m \in AddrsOf(key) \ DOMAIN c.nodes : n <= m

\* ---- the list primitives --------------------------------------------------
\* remove_node without the else branch of lines 88-90: tail is never updated
remove_node_keeps_tail(c, node) ==
    IF node = NIL THEN c
    ELSE
      LET prev == c.nodes[node].prev
          next == c.nodes[node].next
          c1 == IF prev # NIL
                THEN [c EXCEPT !.nodes[prev].next = next]
                ELSE [c EXCEPT !.head = next]
          c2 == IF next # NIL
                THEN [c1 EXCEPT !.nodes[next].prev = prev]
                ELSE c1
      IN  c2

\* remove_node without the else branch of lines 82-84: head is never updated
remove_node_keeps_head(c, node) ==
    IF node = NIL THEN c
    ELSE
      LET prev == c.nodes[node].prev
          next == c.nodes[node].next
          c1 == IF prev # NIL
                THEN [c EXCEPT !.nodes[prev].next = next]
                ELSE c
          c2 == IF next # NIL
                THEN [c1 EXCEPT !.nodes[next].prev = prev]
                ELSE [c1 EXCEPT !.tail = prev]
      IN  c2

\* remove_node that cuts the predecessor's next link instead of bridging it
remove_node_unlinks_prev(c, node) ==
    IF node = NIL THEN c
    ELSE
      LET prev == c.nodes[node].prev
          next == c.nodes[node].next
          c1 == IF prev # NIL
                THEN [c EXCEPT !.nodes[prev].next = NIL]
                ELSE [c EXCEPT !.head = next]
          c2 == IF next # NIL
                THEN [c1 EXCEPT !.nodes[next].prev = prev]
                ELSE [c1 EXCEPT !.tail = prev]
      IN  c2

remove_node(c, node) ==
    IF node = NIL THEN c
    ELSE
      LET prev == c.nodes[node].prev
          next == c.nodes[node].next
          c1 == IF prev # NIL
                THEN [c EXCEPT !.nodes[prev].next = next]
                ELSE [c EXCEPT !.head = next]
          c2 == IF next # NIL
                THEN [c1 EXCEPT !.nodes[next].prev = prev]
                ELSE [c1 EXCEPT !.tail = prev]
      IN  c2

\* push_front that sets head only when the list is empty
push_front_no_head(c, node) ==
    IF node = NIL THEN c
    ELSE
      LET c1 == [c EXCEPT !.nodes[node].next = c.head]
          c2 == [c1 EXCEPT !.nodes[node].prev = NIL]
          c3 == IF c2.head # NIL
                THEN [c2 EXCEPT !.nodes[c2.head].prev = node]
                ELSE c2
          c4 == IF c3.head = NIL THEN [c3 EXCEPT !.head = node] ELSE c3
          c5 == IF c4.tail = NIL THEN [c4 EXCEPT !.tail = node] ELSE c4
      IN  c5

\* push_front without lines 102-104: the old head's prev is not set
push_front_no_backlink(c, node) ==
    IF node = NIL THEN c
    ELSE
      LET c1 == [c EXCEPT !.nodes[node].next = c.head]
          c2 == [c1 EXCEPT !.nodes[node].prev = NIL]
          c4 == [c2 EXCEPT !.head = node]
          c5 == IF c4.tail = NIL THEN [c4 EXCEPT !.tail = node] ELSE c4
      IN  c5

\* push_front without line 100: the node keeps the prev link it had
push_front_keeps_prev(c, node) ==
    IF node = NIL THEN c
    ELSE
      LET c1 == [c EXCEPT !.nodes[node].next = c.head]
          c3 == IF c1.head # NIL
                THEN [c1 EXCEPT !.nodes[c1.head].prev = node]
                ELSE c1
          c4 == [c3 EXCEPT !.head = node]
          c5 == IF c4.tail = NIL THEN [c4 EXCEPT !.tail = node] ELSE c4
      IN  c5

push_front(c, node) ==
    IF node = NIL THEN c
    ELSE
      LET c1 == [c EXCEPT !.nodes[node].next = c.head]
          c2 == [c1 EXCEPT !.nodes[node].prev = NIL]
          c3 == IF c2.head # NIL
                THEN [c2 EXCEPT !.nodes[c2.head].prev = node]
                ELSE c2
          c4 == [c3 EXCEPT !.head = node]
          c5 == IF c4.tail = NIL THEN [c4 EXCEPT !.tail = node] ELSE c4
      IN  c5

\* ---- get ------------------------------------------------------------------
\* result: the cache after the call, the returned Option<V>, the branch
\* get that returns the value of a hit without moving the node to the front
get_no_move(c, key) ==
    IF key \in DOMAIN c.map
    THEN LET node == c.map[key]
         IN  IF node = NIL
             THEN [cache |-> [c EXCEPT !.panicked = TRUE],
                   ret |-> None, branch |-> "panic"]
             ELSE [cache |-> c, ret |-> c.nodes[node].data, branch |-> "hit"]
    ELSE [cache |-> c, ret |-> None, branch |-> "miss"]

\* get that on a miss falls through to the reordering with the tail node
get_miss_moves_tail(c, key) ==
    IF key \in DOMAIN c.map
    THEN LET node == c.map[key]
         IN  IF node = NIL
             THEN [cache |-> [c EXCEPT !.panicked = TRUE],
                   ret |-> None, branch |-> "panic"]
             ELSE LET data == c.nodes[node].data
                      c1 == remove_node(c, node)
                      c2 == push_front(c1, node)
                  IN  [cache |-> end_of_call(c2), ret |-> data,
                       branch |-> "hit"]
    ELSE LET c1 == remove_node(c, c.tail)
             c2 == push_front(c1, c.tail)
         IN  [cache |-> end_of_call(c2), ret |-> None, branch |-> "miss"]

get(c, key) ==
    IF key \in DOMAIN c.map
    THEN LET node == c.map[key]
         IN  IF node = NIL
             THEN [cache |-> [c EXCEPT !.panicked = TRUE],
                   ret |-> None, branch |-> "panic"]
             ELSE LET data == c.nodes[node].data
                      c1 == remove_node(c, node)
                      c2 == push_front(c1, node)
                  IN  [cache |-> end_of_call(c2), ret |-> data,
                       branch |-> "hit"]
    ELSE [cache |-> c, ret |-> None, branch |-> "miss"]

\* ---- put ------------------------------------------------------------------
\* lines 55-61: make room when the map is full
\* evict with `>` for `>=` in the capacity test
evict_gt(c) ==
    IF Cardinality(DOMAIN c.map) > c.capacity
    THEN IF c.tail # NIL
         THEN LET tail_key == c.nodes[c.tail].key
                  c1 == [c EXCEPT !.map = map_remove(c.map, tail_key)]
              IN  remove_node(c1, c.tail)
         ELSE c
    ELSE c

\* evict that makes room one entry too early
evict_early(c) ==
    IF Cardinality(DOMAIN c.map) + 1 >= c.capacity
    THEN IF c.tail # NIL
         THEN LET tail_key == c.nodes[c.tail].key
                  c1 == [c EXCEPT !.map = map_remove(c.map, tail_key)]
              IN  remove_node(c1, c.tail)
         ELSE c
    ELSE c

\* evict that takes the head (most recently used) for the tail
evict_head(c) ==
    IF Cardinality(DOMAIN c.map) >= c.capacity
    THEN IF c.head # NIL
         THEN LET head_key == c.nodes[c.head].key
                  c1 == [c EXCEPT !.map = map_remove(c.map, head_key)]
              IN  remove_node(c1, c.head)
         ELSE c
    ELSE c

\* evict that removes the tail key from the map but leaves its node linked
evict_no_unlink(c) ==
    IF Cardinality(DOMAIN c.map) >= c.capacity
    THEN IF c.tail # NIL
         THEN LET tail_key == c.nodes[c.tail].key
              IN  [c EXCEPT !.map = map_remove(c.map, tail_key)]
         ELSE c
    ELSE c

\* evict that unlinks the tail node but leaves its key in the map
evict_keeps_index(c) ==
    IF Cardinality(DOMAIN c.map) >= c.capacity
    THEN IF c.tail # NIL
         THEN remove_node(c, c.tail)
         ELSE c
    ELSE c

evict(c) ==
    IF Cardinality(DOMAIN c.map) >= c.capacity
    THEN IF c.tail # NIL
         THEN LET tail_key == c.nodes[c.tail].key
                  c1 == [c EXCEPT !.map = map_remove(c.map, tail_key)]
              IN  remove_node(c1, c.tail)
         ELSE c
    ELSE c

\* insert_new that links the node but indexes an empty Link for the key
insert_new_none(c, key, value) ==
    LET new_node == rc_new(c, key)
        c1 == [c EXCEPT !.nodes =
                 map_insert(c.nodes, new_node, Node(key, value, NIL, NIL))]
        c2 == push_front(c1, new_node)
    IN  [c2 EXCEPT !.map = map_insert(c2.map, key, NIL)]

\* insert_new that links the node and forgets to index it
insert_new_no_index(c, key, value) ==
    LET new_node == rc_new(c, key)
        c1 == [c EXCEPT !.nodes =
                 map_insert(c.nodes, new_node, Node(key, value, NIL, NIL))]
    IN  push_front(c1, new_node)

\* lines 63-71: allocate the node, link it at the front, index it
insert_new(c, key, value) ==
    LET new_node == rc_new(c, key)
        c1 == [c EXCEPT !.nodes =
                 map_insert(c.nodes, new_node, Node(key, value, NIL, NIL))]
        c2 == push_front(c1, new_node)
    IN  [c2 EXCEPT !.map = map_insert(c2.map, key, new_node)]

\* put without the lookup of lines 47-53: every put inserts a new node
put_always_insert(c, key, value) ==
    LET c1 == end_of_call(evict(c))
        c2 == insert_new(c1, key, value)
    IN  [cache |-> end_of_call(c2),
         branch |-> IF key \in DOMAIN c.map THEN "overwrite"
                    ELSE IF DOMAIN c.map \subseteq DOMAIN c2.map
                    THEN "insert" ELSE "evict"]

\* put that moves a resident key to the front without storing the new value
put_no_overwrite(c, key, value) ==
    IF key \in DOMAIN c.map
    THEN LET node == c.map[key]
         IN  IF node = NIL
             THEN [cache |-> [c EXCEPT !.panicked = TRUE], branch |-> "panic"]
             ELSE LET c2 == remove_node(c, node)
                      c3 == push_front(c2, node)
                  IN  [cache |-> end_of_call(c3), branch |-> "overwrite"]
    ELSE LET c1 == end_of_call(evict(c))
             c2 == insert_new(c1, key, value)
         IN  [cache |-> end_of_call(c2),
              branch |-> IF DOMAIN c.map \subseteq DOMAIN c2.map
                         THEN "insert" ELSE "evict"]

put(c, key, value) ==
    IF key \in DOMAIN c.map
    THEN LET node == c.map[key]
         IN  IF node = NIL
             THEN [cache |-> [c EXCEPT !.panicked = TRUE], branch |-> "panic"]
             ELSE LET c1 == [c EXCEPT !.nodes[node].data = value]
                      c2 == remove_node(c1, node)
                      c3 == push_front(c2, node)
                  IN  [cache |-> end_of_call(c3), branch |-> "overwrite"]
    ELSE LET c1 == end_of_call(evict(c))
             c2 == insert_new(c1, key, value)
         IN  [cache |-> end_of_call(c2),
              branch |-> IF DOMAIN c.map \subseteq DOMAIN c2.map
                         THEN "insert" ELSE "evict"]

\* ---- history variables ------------------------------------------------------
SeqWithout(s, x) == SelectSeq(s, LAMBDA y : y # x)

\* key t was touched (or NIL: no touch) and the keys in gone left the map;
\* the history of a key ends when it leaves the map
Touch(t, gone, newMap) ==
    /\ touchOrder' = SelectSeq(IF t = NIL THEN touchOrder
                               ELSE <<t>> \o SeqWithout(touchOrder, t),
                               LAMBDA y : y \notin gone)
    /\ pending' = [j \in Keys |->
                     IF j \in gone THEN {}
                     ELSE IF j = t THEN (DOMAIN newMap) \ {t}
                     ELSE IF t = NIL THEN pending[j] \ gone
                     ELSE pending[j] \ (gone \cup {t})]

\* ---- tests::test_lru_cache ---------------------------------------------------
TestCapacity == 2

Call(o, key, value) == [op |-> o, key |-> key, val |-> value]

test_lru_cache ==
    << Call("put", 1, 1), Call("put", 2, 2), Call("get", 1, None),
       Call("put", 3, 3), Call("get", 2, None), Call("put", 4, 4),
       Call("get", 1, None), Call("get", 3, None), Call("get", 4, None) >>

Diverged == -1

\* the calls so far stay a prefix of the test exactly when this call is its next
Follow(call) ==
    script' = IF /\ script # Diverged
                 /\ script < Len(test_lru_cache)
                 /\ test_lru_cache[script + 1] = call
              THEN script + 1
              ELSE Diverged

\* ---- the state machine --------------------------------------------------------
Cache == LruCache(capacity, map, head, tail, nodes, panicked)

SetCache(c) ==
    /\ capacity' = c.capacity
    /\ map' = c.map
    /\ head' = c.head
    /\ tail' = c.tail
    /\ nodes' = c.nodes
    /\ panicked' = c.panicked

Init ==
    /\ \E cap \in 0..MaxCap : 
         LET c == new(cap) IN
           /\ capacity = c.capacity
           /\ map = c.map
           /\ head = c.head
           /\ tail = c.tail
           /\ nodes = c.nodes
           /\ panicked = c.panicked
    /\ op = "new" /\ argKey = NIL /\ argVal = None /\ ret = None
    /\ branch = "new"
    /\ touchOrder = <<>>
    /\ lastPut = [k \in Keys |-> None]
    /\ pending = [k \in Keys |-> {}]
    /\ script = IF capacity = TestCapacity THEN 0 ELSE Diverged

Get(key) ==
    /\ ~panicked
    /\ \E r \in {get(Cache, key)} :
         /\ SetCache(r.cache)
         /\ op' = "get" /\ argKey' = key /\ argVal' = None
         /\ ret' = r.ret /\ branch' = r.branch
         /\ Touch(IF r.branch = "hit" THEN key ELSE NIL,
                  (DOMAIN map) \ DOMAIN r.cache.map, r.cache.map)
         /\ lastPut' = [k \in Keys |->
                          IF k \in DOMAIN r.cache.map THEN lastPut[k]
                          ELSE None]
         /\ Follow(Call("get", key, None))

Put(key, value) ==
    /\ ~panicked
    /\ AddrsOf(key) \ DOMAIN nodes # {}
    /\ \E r \in {put(Cache, key, value)} :
         /\ SetCache(r.cache)
         /\ op' = "put" /\ argKey' = key /\ argVal' = value
         /\ ret' = None /\ branch' = r.branch
         /\ Touch(IF r.branch = "panic" THEN NIL ELSE key,
                  (DOMAIN map) \ DOMAIN r.cache.map, r.cache.map)
         /\ lastPut' = [k \in Keys |->
                          IF k = key /\ r.branch # "panic" THEN value
                          ELSE IF k \in DOMAIN r.cache.map THEN lastPut[k]
                          ELSE None]
         /\ Follow(Call("put", key, value))

Next ==
    \/ \E key \in Keys : Get(key)
    \/ \E key \in Keys, value \in Values : Put(key, value)

Spec == Init /\ [][Next]_vars

\* the cache of the test, LruCache::new(2) with i32 keys stored as values too,
\* under any calls
InitTest == Init /\ capacity = TestCapacity

NextTest ==
    \/ \E key \in Keys : Get(key)
    \/ \E key \in Keys, value \in Keys : Put(key, value)

SpecTest == InitTest /\ [][NextTest]_vars

\* ---- observation of the recency list -------------------------------------
\* the node ids met walking next links from n, at most fuel of them
RECURSIVE walk(_, _, _)
walk(ns, n, fuel) ==
    IF n = NIL \/ fuel = 0 \/ n \notin DOMAIN ns THEN <<>>
    ELSE <<n>> \o walk(ns, ns[n].next, fuel - 1)

ListOf(ns, h) == walk(ns, h, 2 * MaxKey + 1)

KeysOf(ns, h) == [i \in 1..Len(ListOf(ns, h)) |-> ns[ListOf(ns, h)[i]].key]

Range(s) == {s[i] : i \in 1..Len(s)}

Pos(s, x) == CHOOSE i \in 1..Len(s) : s[i] = x

Size(m) == Cardinality(DOMAIN m)

\* the value stored for a resident key
Stored(ns, m, k) == ns[m[k]].data

\* ---- C1 -------------------------------------------------------------------
\* C1: for a cache built with capacity >= 1, after every get and put the
\* number of resident keys (entries of the index) is at most capacity.
C1_CapacityBound ==
    capacity >= 1 => Size(map) <= capacity

C1_Witness ==
    /\ capacity >= 1
    /\ branch = "evict"
    /\ Size(map) = capacity

\* ---- C2 -------------------------------------------------------------------
\* C2: when put(k, v) inserts a non-resident k while the cache holds exactly
\* capacity entries (capacity >= 1), exactly one key is removed, and it is the
\* resident key whose most recent touch is older than the most recent touch of
\* every other resident key.
C2_Step ==
    (/\ op' = "put"
     /\ capacity >= 1
     /\ argKey' \notin DOMAIN map
     /\ Size(map) = capacity)
    => \E e \in DOMAIN map :
         /\ (DOMAIN map) \ (DOMAIN map') = {e}
         /\ \A j \in (DOMAIN map) \ {e} :
              /\ j \in Range(touchOrder)
              /\ e \in Range(touchOrder)
              /\ Pos(touchOrder, j) < Pos(touchOrder, e)

C2_EvictsLeastRecentlyTouched == [][C2_Step]_vars

C2_Witness ==
    /\ branch = "evict"
    /\ capacity >= 2
    /\ Size(map) = capacity
    /\ touchOrder[1] = argKey
    /\ nodes[tail].key = touchOrder[Len(touchOrder)]

\* ---- C3 -------------------------------------------------------------------
\* C3: get(k) of a key that is not resident returns None and leaves the cache
\* unchanged: resident keys, stored values, links, head and tail.
C3_Step ==
    (op' = "get" /\ argKey' \notin DOMAIN map)
    => /\ ret' = None
       /\ UNCHANGED <<capacity, map, head, tail, nodes, panicked>>

C3_GetMissIsPure == [][C3_Step]_vars

C3_Witness ==
    /\ op = "get"
    /\ branch = "miss"
    /\ ret = None
    /\ Size(map) >= 2

\* ---- C4 -------------------------------------------------------------------
\* C4: get(k) of a resident key returns the value stored for k, makes k's
\* entry the head of the recency list, and changes neither the set of resident
\* keys nor any stored value.
C4_Step ==
    (op' = "get" /\ argKey' \in DOMAIN map)
    => /\ ~panicked'
       /\ ret' = Stored(nodes, map, argKey')
       /\ DOMAIN map' = DOMAIN map
       /\ head' = map'[argKey']
       /\ head' \in DOMAIN nodes'
       /\ nodes'[head'].key = argKey'
       /\ KeysOf(nodes', head')[1] = argKey'
       /\ \A k \in DOMAIN map : Stored(nodes', map', k) = Stored(nodes, map, k)

C4_GetHitMovesToFront == [][C4_Step]_vars

C4_Witness ==
    /\ op = "get"
    /\ branch = "hit"
    /\ Size(map) >= 3
    /\ head = map[argKey]
    /\ ret = nodes[head].data

\* ---- C5 -------------------------------------------------------------------
\* C5: put(k, v2) on a resident key leaves exactly one entry for k, holding
\* v2, at the front; the number of resident keys is unchanged and no key is
\* evicted, also when the cache is at capacity.
C5_Step ==
    (op' = "put" /\ argKey' \in DOMAIN map)
    => /\ ~panicked'
       /\ DOMAIN map' = DOMAIN map
       /\ Size(map') = Size(map)
       /\ Cardinality({n \in DOMAIN nodes' : nodes'[n].key = argKey'}) = 1
       /\ Cardinality({i \in 1..Len(KeysOf(nodes', head')) :
                          KeysOf(nodes', head')[i] = argKey'}) = 1
       /\ Stored(nodes', map', argKey') = argVal'
       /\ head' = map'[argKey']

C5_OverwriteInPlace == [][C5_Step]_vars

C5_Witness ==
    /\ op = "put"
    /\ branch = "overwrite"
    /\ capacity >= 2
    /\ Size(map) = capacity
    /\ nodes[head].data = argVal

\* ---- C6 -------------------------------------------------------------------
\* C6: put(k, v) of a non-resident key while fewer than capacity keys are
\* resident adds k with value v at the front, increases the number of resident
\* keys by exactly 1 and removes no key.
C6_Step ==
    (op' = "put" /\ argKey' \notin DOMAIN map /\ Size(map) < capacity)
    => /\ DOMAIN map' = (DOMAIN map) \cup {argKey'}
       /\ Size(map') = Size(map) + 1
       /\ head' = map'[argKey']
       /\ Stored(nodes', map', argKey') = argVal'
       /\ KeysOf(nodes', head') = <<argKey'>> \o KeysOf(nodes, head)
       /\ \A k \in DOMAIN map : Stored(nodes', map', k) = Stored(nodes, map, k)

C6_InsertBelowCapacity == [][C6_Step]_vars

C6_Witness ==
    /\ op = "put"
    /\ branch = "insert"
    /\ Size(map) >= 2
    /\ Len(ListOf(nodes, head)) = Size(map)

\* ---- C7 -------------------------------------------------------------------
\* C7: put(k, v) of a non-resident key while exactly capacity keys are
\* resident (capacity >= 1) removes the tail entry from the index and from the
\* recency list, then inserts k at the front: the number of resident keys is
\* unchanged and the resident set is the old one with the old tail key
\* replaced by k.
C7_Step ==
    (/\ op' = "put"
     /\ capacity >= 1
     /\ argKey' \notin DOMAIN map
     /\ Size(map) = capacity)
    => /\ tail # NIL
       /\ DOMAIN map' = ((DOMAIN map) \ {nodes[tail].key}) \cup {argKey'}
       /\ nodes[tail].key \notin DOMAIN map'
       /\ Size(map') = Size(map)
       /\ LET old == KeysOf(nodes, head)
          IN  KeysOf(nodes', head') =
                <<argKey'>> \o SubSeq(old, 1, Len(old) - 1)
       /\ head' = map'[argKey']

C7_InsertWithEviction == [][C7_Step]_vars

C7_Witness ==
    /\ op = "put"
    /\ branch = "evict"
    /\ capacity >= 1
    /\ Size(map) = capacity
    /\ Range(KeysOf(nodes, head)) = DOMAIN map
    /\ Len(KeysOf(nodes, head)) = capacity

\* ---- C8 -------------------------------------------------------------------
\* C8: after every put(k, v), whichever case applied, k is resident and is the
\* entry at the head of the recency list.
C8_PutKeyIsHead ==
    op = "put"
    => /\ ~panicked
       /\ argKey \in DOMAIN map
       /\ head = map[argKey]
       /\ head \in DOMAIN nodes
       /\ nodes[head].key = argKey
       /\ nodes[head].prev = NIL

C8_Witness ==
    /\ op = "put"
    /\ branch = "overwrite"
    /\ Size(map) >= 2
    /\ head = map[argKey]
    /\ tail # head

\* ---- C9 -------------------------------------------------------------------
\* C9: get(k) issued after put(k, v) returns v as long as k has not been
\* evicted and no later put(k, _) happened in between (lastPut[k] is that v);
\* in particular put(k, v) immediately followed by get(k) returns v.
C9_Step ==
    /\ (op' = "get" /\ lastPut[argKey'] # None) => ret' = lastPut[argKey']
    /\ (op = "put" /\ op' = "get" /\ argKey' = argKey) => ret' = argVal

C9_RoundTrip == [][C9_Step]_vars

C9_Witness ==
    /\ op = "get"
    /\ ret # None
    /\ ret = lastPut[argKey]
    /\ ret = MaxVal
    /\ Size(map) >= 2

\* ---- C10 ------------------------------------------------------------------
\* C10: after a get(k) that hits or a put(k, v), k is not evicted until every
\* other key that was resident at that moment has itself been evicted or
\* touched again after k's touch (pending[k] is the set of those that have
\* not).
C10_Step ==
    \A e \in (DOMAIN map) \ (DOMAIN map') : pending[e] = {}

C10_NotEvictedBeforeOlderKeys == [][C10_Step]_vars

C10_Witness ==
    /\ branch = "evict"
    /\ capacity >= 2
    /\ Size(map) = capacity
    /\ pending[argKey] # {}
    /\ \E k \in DOMAIN map : k # argKey /\ pending[k] = {}

\* ---- C11 ------------------------------------------------------------------
\* C11: with capacity 2, put(1,1), put(2,2), get(1), put(3,3), get(2),
\* put(4,4), get(1), get(3), get(4) returns 1 for the first get(1), None for
\* get(2), None for the second get(1), 3 for get(3) and 4 for get(4); the
\* resident set is {1,3} after put(3,3) and {3,4} after put(4,4).
C11_TestScenario ==
    /\ script = 3 => ret = 1
    /\ script = 4 => DOMAIN map = {1, 3}
    /\ script = 5 => ret = None
    /\ script = 6 => DOMAIN map = {3, 4}
    /\ script = 7 => ret = None
    /\ script = 8 => ret = 3
    /\ script = 9 => ret = 4

C11_Witness ==
    /\ script = Len(test_lru_cache)
    /\ capacity = TestCapacity
    /\ op = "get"
    /\ argKey = 4

C13_ZeroCapacityNeverUsed ==
    capacity = 0 => op \notin {"get", "put"}

\* ---- C18 ------------------------------------------------------------------
\* C18: for a cache constructed with capacity 0 no entry can ever be inserted:
\* after any puts there is no resident key and every get returns None.
C18_ZeroCapacityStaysEmpty ==
    capacity = 0
    => /\ Size(map) = 0
       /\ head = NIL
       /\ op = "get" => ret = None

\* ---- well-formedness of the recency list -----------------------------------
NoDup(s) == \A i, j \in 1..Len(s) : s[i] = s[j] => i = j

\* the nodes reached from c.head form one doubly-linked chain ending at c.tail
Chain(c) ==
    LET L == ListOf(c.nodes, c.head)
    IN  /\ (c.head = NIL) <=> (c.tail = NIL)
        /\ c.head # NIL =>
             c.head \in DOMAIN c.nodes /\ c.nodes[c.head].prev = NIL
        /\ c.tail # NIL =>
             c.tail \in DOMAIN c.nodes /\ c.nodes[c.tail].next = NIL
        /\ NoDup(L)
        /\ \A i \in 1..(Len(L) - 1) :
             c.nodes[L[i]].next = L[i + 1] /\ c.nodes[L[i + 1]].prev = L[i]
        /\ Len(L) > 0 => L[Len(L)] = c.tail

\* ---- C14 ------------------------------------------------------------------
\* C14: the keys of the index are exactly the keys of the entries reached by
\* walking next from head, each key occurs in exactly one entry of the walk,
\* the index maps each key to the entry carrying that key, and the index has
\* as many entries as the list.
C14_IndexMatchesList ==
    LET L == ListOf(nodes, head)
        K == KeysOf(nodes, head)
    IN  /\ DOMAIN map = Range(K)
        /\ NoDup(K)
        /\ \A k \in DOMAIN map :
             /\ map[k] \in Range(L)
             /\ nodes[map[k]].key = k
        /\ Size(map) = Len(L)

C14_Witness ==
    /\ Size(map) = 3
    /\ Len(ListOf(nodes, head)) = 3
    /\ branch = "evict"
    /\ nodes[map[argKey]].key = argKey

\* ---- C15 ------------------------------------------------------------------
\* C15: between operations the recency list is one acyclic doubly-linked
\* chain: head's prev and tail's next are absent, next and prev of every entry
\* mirror each other, the walk from head ends at tail, and head and tail are
\* both absent exactly when no key is resident.
C15_ListWellFormed ==
    /\ Chain(Cache)
    /\ \A e \in DOMAIN nodes :
         /\ e \in Range(ListOf(nodes, head))
         /\ nodes[e].next # NIL =>
              nodes[e].next \in DOMAIN nodes /\ nodes[nodes[e].next].prev = e
         /\ nodes[e].prev # NIL =>
              nodes[e].prev \in DOMAIN nodes /\ nodes[nodes[e].prev].next = e
    /\ (head = NIL /\ tail = NIL) <=> (Size(map) = 0)
    /\ (head = NIL \/ tail = NIL) => (Size(map) = 0)

C15_Witness ==
    /\ Len(ListOf(nodes, head)) = 3
    /\ nodes[nodes[head].next].prev = head
    /\ nodes[nodes[head].next].next = tail
    /\ branch = "hit"

\* ---- C16 ------------------------------------------------------------------
\* C16: remove_node of an entry of the (well-formed) list connects its
\* predecessor and successor; the successor becomes head if the entry was
\* head, the predecessor becomes tail if it was tail, unlinking the only entry
\* leaves head and tail absent, and the remaining entries form a well-formed
\* chain in their previous relative order.
C16_RemoveNode ==
    LET L == ListOf(nodes, head)
    IN  \A n \in Range(L) :
          LET c2 == remove_node(Cache, n)
              p  == nodes[n].prev
              x  == nodes[n].next
          IN  /\ p # NIL => c2.nodes[p].next = x
              /\ x # NIL => c2.nodes[x].prev = p
              /\ c2.head = IF n = head THEN x ELSE head
              /\ c2.tail = IF n = tail THEN p ELSE tail
              /\ Len(L) = 1 => (c2.head = NIL /\ c2.tail = NIL)
              /\ ListOf(c2.nodes, c2.head) = SeqWithout(L, n)
              /\ Chain(c2)
              /\ c2.map = map

C16_Witness ==
    /\ Len(ListOf(nodes, head)) = 3
    /\ branch \in {"hit", "overwrite"}
    /\ LET mid == nodes[head].next
       IN  /\ mid # tail
           /\ ListOf(remove_node(Cache, mid).nodes,
                     remove_node(Cache, mid).head) = <<head, tail>>

\* ---- C17 ------------------------------------------------------------------
\* C17: push_front of an entry that is not in the list sets its prev to
\* absent and its next to the old head, sets the old head's prev to the entry,
\* makes the entry the head, and makes it the tail exactly when the list was
\* empty; tail is otherwise unchanged.  (c1 is the cache before the call.)
PushFrontOf(c1, n) ==
    LET c2 == push_front(c1, n)
    IN  /\ c2.nodes[n].prev = NIL
        /\ c2.nodes[n].next = c1.head
        /\ c1.head # NIL => c2.nodes[c1.head].prev = n
        /\ c2.head = n
        /\ c2.tail = IF c1.tail = NIL THEN n ELSE c1.tail
        /\ (c2.tail = n) <=> (ListOf(c1.nodes, c1.head) = <<>>)
        /\ \A m \in (DOMAIN c1.nodes) \ {n, c1.head} : c2.nodes[m] = c1.nodes[m]
        /\ c1.head \notin {NIL, n} =>
             /\ c2.nodes[c1.head].next = c1.nodes[c1.head].next
             /\ c2.nodes[c1.head].key = c1.nodes[c1.head].key
             /\ c2.nodes[c1.head].data = c1.nodes[c1.head].data
        /\ c2.map = c1.map

C17_PushFront ==
    \* an entry just unlinked, as in get and in put of a resident key
    /\ \A n \in Range(ListOf(nodes, head)) :
         PushFrontOf(remove_node(Cache, n), n)
    \* a newly allocated entry, as in put of a key that is not resident
    /\ \A k \in Keys \ DOMAIN map, v \in Values :
         AddrsOf(k) \ DOMAIN nodes # {} =>
           LET n == rc_new(Cache, k)
           IN  PushFrontOf([Cache EXCEPT !.nodes =
                              map_insert(nodes, n, Node(k, v, NIL, NIL))], n)

C17_Witness ==
    /\ op = "put"
    /\ branch = "insert"
    /\ Size(map) = 2
    /\ head = map[argKey]
    /\ nodes[head].prev = NIL
    /\ nodes[head].next = tail
    /\ nodes[tail].prev = head

\* ---- C19 ------------------------------------------------------------------
\* C19: moving a resident key k to the front, by a get(k) that hits or by
\* put(k, v), keeps the front-to-back order of all other resident keys and
\* their stored values, wherever k was in the list.
C19_Step ==
    (op' \in {"get", "put"} /\ argKey' \in DOMAIN map)
    => /\ KeysOf(nodes', head') =
            <<argKey'>> \o SeqWithout(KeysOf(nodes, head), argKey')
       /\ \A j \in (DOMAIN map) \ {argKey'} :
            /\ j \in DOMAIN map'
            /\ Stored(nodes', map', j) = Stored(nodes, map, j)

C19_MoveToFrontKeepsOrder == [][C19_Step]_vars

C19_Witness ==
    /\ branch \in {"hit", "overwrite"}
    /\ Size(map) = 3
    /\ Len(KeysOf(nodes, head)) = 3
    /\ KeysOf(nodes, head)[1] = argKey
    /\ capacity = 3

\* ---- C20 ------------------------------------------------------------------
\* C20: after a put that evicts the tail, the evicted entry is unreachable
\* from the cache: it is neither head nor tail, no value of the index, and no
\* entry's next or prev refers to it (so its allocation is freed), although
\* remove_node leaves the evicted entry's own prev link as it was.
C20_Step ==
    (/\ op' = "put"
     /\ argKey' \notin DOMAIN map
     /\ Size(map) >= capacity
     /\ tail # NIL)
    => /\ head' # tail
       /\ tail' # tail
       /\ \A k \in DOMAIN map' : map'[k] # tail
       /\ \A n \in DOMAIN nodes' :
            nodes'[n].next # tail /\ nodes'[n].prev # tail
       /\ tail \notin DOMAIN nodes'
       /\ remove_node(Cache, tail).nodes[tail].prev = nodes[tail].prev

C20_EvictedUnreachable == [][C20_Step]_vars

C20_Witness ==
    /\ op = "put"
    /\ branch = "evict"
    /\ capacity >= 2
    /\ Size(map) = capacity
    /\ DOMAIN nodes = Range(ListOf(nodes, head))
    /\ Cardinality(DOMAIN nodes) = capacity

====
